---- MODULE Spec2Model ----
(***************************************************************************)
(* kamera: one camera API over three capture backends.                     *)
(*                                                                         *)
(*   linux  src/src/linux_v4l2/mod.rs   frames pulled from a v4l stream    *)
(*   win    src/src/win_mf/camera.rs    frames pushed into an mpsc channel *)
(*   mac    src/src/mac_avf/camera.rs   frames pushed into a Slot          *)
(*                                                                         *)
(* The backend is selected at compile time (src/src/camera.rs:1-8); the    *)
(* model draws it once, in Init, so that the reachable states are the      *)
(* disjoint union of the three programs.  The Slot behind                  *)
(* mac_avf::Camera::wait_for_frame (delegate.slot(), wait_for_sample) is   *)
(* not part of the sources at hand and is modelled from the written        *)
(* description of post()/wait().                                           *)
(***************************************************************************)
EXTENDS Naturals, Sequences, FiniteSets

\* ---------------------------------------------------------------- bounds
MaxPosts    == 3   \* samples / drop notifications the native thread delivers
MaxSessions == 3   \* native device resources opened over the run
MaxStreams  == 3   \* v4l mmap streams created over the run
MaxViews    == 2   \* pixel views taken of one Frame

Backends  == {"linux", "win", "mac"}
Devices   == {1, 2}          \* CameraDevice.id
Consumers == {1, 2}          \* threads calling wait_for_frame
Kinds     == {"S", "N"}      \* Some(sample) / None (dropped-sample notification)
Widths    == {1, 2}          \* frame width in pixels
Heights   == {1, 2}          \* frame height in pixels
Formats   == {"RGB3", "YUYV", "MJPG", "GREY"}   \* format.fourcc; GREY: a tag the match does not list

VARIABLES
    backend,    \* which backend::Camera is compiled in
    status,     \* "ok", "panicked" (unwrap/todo!/panic! hit), "none" (constructor returned None)
    device,     \* id of the current device (device_path / device.id() / uniqueID)
    session,    \* id of the native device resource the controller owns (1, 2, ...)
    released,   \* released[r]: how many times native resource r was dropped
    running,    \* win: engine previewing; mac: AVCaptureSession running
    stream,     \* linux: 0 for None, else the id of the mmap stream held
    streams,    \* linux: streams created so far
    sample_rx,  \* win: the mpsc channel, a sequence of post numbers
    slot,       \* mac: [pending, counter]; pending = 0 for None
    posted,     \* posts so far, in order: posted[i] is the kind of post i
    cut,        \* posts made before the latest switch to another device
    took,       \* took[i]: how many times sample i was handed to a wait caller
    freed,      \* freed[i]: how many times sample i was released undelivered
    pc,         \* pc[c]: "idle", "waiting" (inside wait_for_frame) or "starting" (inside linux start)
    began,      \* began[c]: posts completed when c's wait began; the stream c's start found
    last,       \* the call that has just returned (op = "none" after any other step)
    fh          \* a Frame in the consumer's hands, its views and its native buffer

vars == <<cut, backend, status, device, session, released, running, stream, streams,
          sample_rx, slot, posted, took, freed, pc, began, last, fh>>

ctl   == <<device, session, released, running, stream, streams>>
chans == <<sample_rx, slot, posted, took, freed>>
cons  == <<pc, began>>

\* ----------------------------------------------------------- helpers
Range(q) == {q[i] : i \in 1..Len(q)}

Posts == Len(posted)

\* The controller's logical running state, per backend.
Running == IF backend = "linux" THEN stream # 0 ELSE running

\* What a call can observe of the controller: used to compare before/after.
Snapshot == <<device, session, released, Running, stream, sample_rx, slot>>

NoCall ==
    [op |-> "none", c |-> 0, target |-> 0, found |-> FALSE, res |-> FALSE,
     how |-> "", val |-> 0, frame |-> FALSE, latest |-> 0, began |-> 0,
     prev |-> "", pre |-> <<>>]

\* A start/stop/set_device call that has just returned.
Call(op, target, found, res, how) ==
    [NoCall EXCEPT !.op = op, !.target = target, !.found = found, !.res = res,
                   !.how = how, !.pre = Snapshot]

\* A wait_for_frame call of consumer c that has just returned.
\* val: the post whose sample was taken from the channel/slot (0: nothing taken);
\* frame: the call returned Some(Frame); latest: posts completed at the return;
\* prev: how the call that returned in the step before ended ("" if none did);
\* pre: the channel, the slot and the delivery ledger before the return.
Waited(c, how, val, frame) ==
    [NoCall EXCEPT !.op = "wait", !.c = c, !.how = how, !.val = val,
                   !.frame = frame, !.latest = Posts, !.began = began[c],
                   !.prev = last.how, !.pre = <<sample_rx, slot, took, freed>>]

\* Samples of q dropped with their container.
Dropped(q) ==
    [i \in 1..MaxPosts |->
        freed[i] + (IF i \in Range(q) /\ i <= Posts /\ posted[i] = "S" THEN 1 ELSE 0)]

\* No Frame is being read.
NoFrame ==
    [state |-> "none", fmt |-> "", width |-> 0, height |-> 0, stride |-> 0,
     views |-> 0, locked |-> 0, unlocked |-> 0, released |-> 0, len |-> 0,
     addr |-> 0, u32 |-> "none", prefix |-> 0, words |-> 0]

\* --------------------------------------------------------------- Init
\* new_default_device(): first enumerated device (0: enumeration is empty).
Init ==
    /\ backend \in Backends
    /\ \E d \in Devices \cup {0} :
        /\ device = d
        /\ status = IF d # 0 THEN "ok" ELSE IF backend = "mac" THEN "none" ELSE "panicked"
        /\ session = IF d # 0 THEN 1 ELSE 0
    /\ released = [r \in 1..MaxSessions |-> 0]
    /\ running = FALSE
    /\ stream = 0
    /\ streams = 0
    /\ sample_rx = <<>>
    /\ slot = [pending |-> 0, counter |-> 0]
    /\ posted = <<>>
    /\ took = [i \in 1..MaxPosts |-> 0]
    /\ freed = [i \in 1..MaxPosts |-> 0]
    /\ pc = [c \in Consumers |-> "idle"]
    /\ began = [c \in Consumers |-> 0]
    /\ last = NoCall
    /\ cut = 0
    /\ fh = NoFrame

\* ------------------------------------------------------ start / stop
\* linux: wait_for_frame keeps the guard of self.stream.write() for the whole
\* `if let ... next()`; stream.read()/write() of another call blocks meanwhile.
StreamLockFree == \A c \in Consumers : pc[c] # "waiting"

\* Threads that have found the stream to be None in start() and have not yet
\* inserted theirs.
Starting == {c \in Consumers : pc[c] = "starting"}

\* start() that leaves out the is_none() test and always creates a stream.
linux_start_unconditional(c) ==
    /\ backend = "linux" /\ status = "ok"
    /\ pc[c] = "idle" /\ StreamLockFree
    /\ streams + Cardinality(Starting) < MaxStreams
    /\ pc' = [pc EXCEPT ![c] = "starting"]
    /\ began' = [began EXCEPT ![c] = stream]
    /\ last' = NoCall
    /\ UNCHANGED <<cut, fh, backend, status, ctl, chans>>

\* linux Camera::start, entry, by thread c: if self.stream.read().is_none();
\* the read guard is dropped with the condition.  A stream is there: return.
\* None: go on to create one (began[c] keeps what the test saw).
linux_start(c) ==
    /\ backend = "linux" /\ status = "ok"
    /\ pc[c] = "idle" /\ StreamLockFree
    /\ IF stream = 0
       THEN /\ streams + Cardinality(Starting) < MaxStreams
            /\ pc' = [pc EXCEPT ![c] = "starting"]
            /\ began' = [began EXCEPT ![c] = stream]
            /\ last' = NoCall
       ELSE /\ last' = Call("start", 0, FALSE, TRUE, "")
            /\ UNCHANGED cons
    /\ UNCHANGED <<cut, fh, backend, status, ctl, chans>>

\* linux Camera::start, body, by thread c: device.write(), Stream::with_buffers,
\* self.stream.write().insert(stream): the Option's previous stream, if another
\* call has put one there meanwhile, is dropped.
linux_start_insert(c) ==
    /\ backend = "linux" /\ status = "ok"
    /\ pc[c] = "starting" /\ StreamLockFree
    /\ stream' = streams + 1
    /\ streams' = streams + 1
    /\ pc' = [pc EXCEPT ![c] = "idle"]
    /\ began' = [began EXCEPT ![c] = 0]
    /\ last' = [Call("start", 0, FALSE, TRUE, "") EXCEPT
                   !.pre = [Snapshot EXCEPT ![4] = began[c] # 0, ![5] = began[c]]]
    /\ UNCHANGED <<cut, fh, backend, status, device, session, released, running, chans>>

\* linux Camera::stop: stream.write().take().
linux_stop ==
    /\ backend = "linux" /\ status = "ok"
    /\ StreamLockFree
    /\ stream' = 0
    /\ last' = Call("stop", 0, FALSE, TRUE, "")
    /\ UNCHANGED <<cut, fh, backend, status, device, session, released, running, streams, chans, cons>>

\* win Camera::start: engine.StartPreview().
win_start ==
    /\ backend = "win" /\ status = "ok"
    /\ running' = TRUE
    /\ last' = Call("start", 0, FALSE, TRUE, "")
    /\ UNCHANGED <<cut, fh, backend, status, device, session, released, stream, streams, chans, cons>>

\* win Camera::stop: capture_engine_stop_preview(&engine).
win_stop ==
    /\ backend = "win" /\ status = "ok"
    /\ running' = FALSE
    /\ last' = Call("stop", 0, FALSE, TRUE, "")
    /\ UNCHANGED <<cut, fh, backend, status, device, session, released, stream, streams, chans, cons>>

\* mac Camera::start: session.startRunning().
mac_start ==
    /\ backend = "mac" /\ status = "ok"
    /\ running' = TRUE
    /\ last' = Call("start", 0, FALSE, TRUE, "")
    /\ UNCHANGED <<cut, fh, backend, status, device, session, released, stream, streams, chans, cons>>

\* mac Camera::stop: session.stopRunning().
mac_stop ==
    /\ backend = "mac" /\ status = "ok"
    /\ running' = FALSE
    /\ last' = Call("stop", 0, FALSE, TRUE, "")
    /\ UNCHANGED <<cut, fh, backend, status, device, session, released, stream, streams, chans, cons>>

\* --------------------------------------------------------- set_device
\* set_device callable through a shared reference, while waits are in progress.
Shared == TRUE

\* set_device takes &mut self: no wait_for_frame(&self) is in progress.
Exclusive == \A c \in Consumers : pc[c] = "idle"

\* The old native resource is dropped by the assignment that replaces it.
Replaced == [released EXCEPT ![session] = @ + 1]

\* set_device that replaces the camera but leaves out self.start().
linux_set_device_no_start(target, enum, ok) ==
    /\ backend = "linux" /\ status = "ok" /\ Exclusive
    /\ cut' = IF target # device /\ target \in enum /\ ok THEN Posts ELSE cut
    /\ IF target = device
       THEN /\ last' = Call("set_device", target, target \in enum, TRUE, "same")
            /\ UNCHANGED <<status, ctl>>
       ELSE IF target \in enum
       THEN /\ session < MaxSessions /\ streams < MaxStreams
            /\ IF ok
               THEN /\ device' = target
                    /\ session' = session + 1
                    /\ released' = Replaced
                    /\ stream' = 0
                    /\ last' = Call("set_device", target, TRUE, TRUE, "switched")
                    /\ UNCHANGED <<status, running, streams>>
               ELSE /\ status' = "panicked"
                    /\ last' = Call("set_device", target, TRUE, FALSE, "panic")
                    /\ UNCHANGED ctl
       ELSE /\ stream' = 0
            /\ last' = Call("set_device", target, FALSE, FALSE, "absent")
            /\ UNCHANGED <<status, device, session, released, running, streams>>
    /\ UNCHANGED <<fh, backend, chans, cons>>

\* linux Camera::set_device(target); enum: the ids enum_devices() yields now;
\* ok: Device::with_path / set_format succeed in from_node (else unwrap panics).
linux_set_device(target, enum, ok) ==
    /\ backend = "linux" /\ status = "ok" /\ Exclusive
    /\ cut' = IF target # device /\ target \in enum /\ ok THEN Posts ELSE cut
    /\ IF target = device
       THEN /\ last' = Call("set_device", target, target \in enum, TRUE, "same")
            /\ UNCHANGED <<status, ctl>>
       ELSE IF target \in enum
       THEN /\ session < MaxSessions /\ streams < MaxStreams
            /\ IF ok
               THEN \* *self = Self::from_node(&new_device); self.start();
                    /\ device' = target
                    /\ session' = session + 1
                    /\ released' = Replaced
                    /\ stream' = streams + 1
                    /\ streams' = streams + 1
                    /\ last' = Call("set_device", target, TRUE, TRUE, "switched")
                    /\ UNCHANGED <<status, running>>
               ELSE /\ status' = "panicked"
                    /\ last' = Call("set_device", target, TRUE, FALSE, "panic")
                    /\ UNCHANGED ctl
       ELSE \* self.stop(); return false;
            /\ stream' = 0
            /\ last' = Call("set_device", target, FALSE, FALSE, "absent")
            /\ UNCHANGED <<status, device, session, released, running, streams>>
    /\ UNCHANGED <<fh, backend, chans, cons>>

\* set_device without the early return for the current id: the session is
\* rebuilt even when the target is the device already in use.
win_set_device_always_switch(target, enum, ok) ==
    /\ backend = "win" /\ status = "ok" /\ Exclusive
    /\ cut' = IF target \in enum /\ ok THEN Posts ELSE cut
    /\ IF target \in enum
       THEN /\ session < MaxSessions
            /\ IF ok
               THEN /\ device' = target
                    /\ session' = session + 1
                    /\ released' = Replaced
                    /\ sample_rx' = <<>>
                    /\ freed' = Dropped(sample_rx)
                    /\ running' = TRUE
                    /\ last' = Call("set_device", target, TRUE, TRUE,
                                    IF target = device THEN "same" ELSE "switched")
                    /\ UNCHANGED <<status, stream, streams>>
               ELSE /\ status' = "panicked"
                    /\ last' = Call("set_device", target, TRUE, FALSE, "panic")
                    /\ UNCHANGED <<ctl, sample_rx, freed>>
       ELSE /\ last' = Call("set_device", target, FALSE, FALSE, "absent")
            /\ UNCHANGED <<status, ctl, sample_rx, freed>>
    /\ UNCHANGED <<fh, backend, slot, posted, took, cons>>

\* set_device that leaks the old receiver (as mem::forget would): what was
\* queued is neither delivered nor released.
win_set_device_leak(target, enum, ok) ==
    /\ backend = "win" /\ status = "ok" /\ Exclusive
    /\ cut' = IF target # device /\ target \in enum /\ ok THEN Posts ELSE cut
    /\ IF target = device
       THEN /\ last' = Call("set_device", target, target \in enum, TRUE, "same")
            /\ UNCHANGED <<status, ctl, sample_rx>>
       ELSE IF target \in enum
       THEN /\ session < MaxSessions
            /\ IF ok
               THEN /\ device' = target
                    /\ session' = session + 1
                    /\ released' = Replaced
                    /\ sample_rx' = <<>>
                    /\ running' = TRUE
                    /\ last' = Call("set_device", target, TRUE, TRUE, "switched")
                    /\ UNCHANGED <<status, stream, streams>>
               ELSE /\ status' = "panicked"
                    /\ last' = Call("set_device", target, TRUE, FALSE, "panic")
                    /\ UNCHANGED <<ctl, sample_rx>>
       ELSE /\ last' = Call("set_device", target, FALSE, FALSE, "absent")
            /\ UNCHANGED <<status, ctl, sample_rx>>
    /\ UNCHANGED <<fh, backend, slot, posted, took, freed, cons>>

\* win Camera::set_device(target); ok: new_capture_engine / init_capture_engine
\* succeed (else unwrap panics).  The assignment drops the old engine and the
\* old sample_rx with everything still queued in it.
win_set_device(target, enum, ok) ==
    /\ backend = "win" /\ status = "ok" /\ Exclusive
    /\ cut' = IF target # device /\ target \in enum /\ ok THEN Posts ELSE cut
    /\ IF target = device
       THEN /\ last' = Call("set_device", target, target \in enum, TRUE, "same")
            /\ UNCHANGED <<status, ctl, sample_rx, freed>>
       ELSE IF target \in enum
       THEN /\ session < MaxSessions
            /\ IF ok
               THEN /\ device' = target
                    /\ session' = session + 1
                    /\ released' = Replaced
                    /\ sample_rx' = <<>>
                    /\ freed' = Dropped(sample_rx)
                    /\ running' = TRUE    \* self.start()
                    /\ last' = Call("set_device", target, TRUE, TRUE, "switched")
                    /\ UNCHANGED <<status, stream, streams>>
               ELSE /\ status' = "panicked"
                    /\ last' = Call("set_device", target, TRUE, FALSE, "panic")
                    /\ UNCHANGED <<ctl, sample_rx, freed>>
       ELSE /\ last' = Call("set_device", target, FALSE, FALSE, "absent")
            /\ UNCHANGED <<status, ctl, sample_rx, freed>>
    /\ UNCHANGED <<fh, backend, slot, posted, took, cons>>

\* mac Camera::set_device(target); ok: deviceInputWithDevice_error succeeds
\* (else return false).  The session and its slot are kept; the input and the
\* device are replaced.
mac_set_device(target, enum, ok) ==
    /\ backend = "mac" /\ status = "ok" /\ Exclusive
    /\ cut' = IF target # device /\ target \in enum /\ ok THEN Posts ELSE cut
    /\ IF target = device
       THEN /\ last' = Call("set_device", target, target \in enum, TRUE, "same")
            /\ UNCHANGED ctl
       ELSE IF target \in enum
       THEN /\ session < MaxSessions
            /\ IF ok
               THEN /\ device' = target
                    /\ session' = session + 1
                    /\ released' = Replaced
                    /\ last' = Call("set_device", target, TRUE, TRUE, "switched")
                    /\ UNCHANGED <<running, stream, streams>>
               ELSE /\ last' = Call("set_device", target, TRUE, FALSE, "open_failed")
                    /\ UNCHANGED ctl
       ELSE /\ last' = Call("set_device", target, FALSE, FALSE, "absent")
            /\ UNCHANGED ctl
    /\ UNCHANGED <<fh, backend, status, chans, cons>>

\* ------------------------------------------------- native delivery thread
\* win: CaptureSampleCallback { sample_tx } sends every sample (or None) into
\* the unbounded mpsc channel created beside it.
win_on_sample(kind) ==
    /\ backend = "win" /\ status = "ok" /\ running
    /\ Posts < MaxPosts
    /\ sample_rx' = Append(sample_rx, Posts + 1)
    /\ posted' = Append(posted, kind)
    /\ last' = NoCall
    /\ UNCHANGED <<cut, fh, backend, status, ctl, slot, took, freed, cons>>

\* FrameSlot::post: swap the pending value, bump the counter (notify_all).
SlotPost(s, kind, n) ==
    [pending |-> IF kind = "S" THEN n ELSE 0, counter |-> s.counter + 1]

\* FrameSlot::wait, once woken: take and clear the pending value.
SlotTake(s) == [s EXCEPT !.pending = 0]

\* mac: the delegate posts every sample and every drop notification into the
\* slot; the value it overwrites is released.
slot_post(kind) ==
    /\ backend = "mac" /\ status = "ok" /\ running
    /\ Posts < MaxPosts
    /\ slot' = SlotPost(slot, kind, Posts + 1)
    /\ freed' = IF slot.pending # 0
                THEN [freed EXCEPT ![slot.pending] = @ + 1]
                ELSE freed
    /\ posted' = Append(posted, kind)
    /\ last' = NoCall
    /\ UNCHANGED <<cut, fh, backend, status, ctl, sample_rx, took, cons>>

\* ------------------------------------------------------- wait_for_frame
\* Camera::wait_for_frame(&self) entered by consumer c (win, mac).
wait_for_frame_call(c) ==
    /\ backend \in {"win", "mac"} /\ status = "ok"
    /\ pc[c] = "idle"
    /\ pc' = [pc EXCEPT ![c] = "waiting"]
    /\ began' = [began EXCEPT ![c] = Posts]
    /\ last' = NoCall
    /\ UNCHANGED <<cut, fh, backend, status, ctl, chans>>

\* A receive that reads the head of the channel without removing it.
win_wait_for_frame_peek(c, conv) ==
    /\ backend = "win" /\ status = "ok"
    /\ pc[c] = "waiting"
    /\ IF sample_rx # <<>>
       THEN LET h == Head(sample_rx) IN
            /\ took[h] < 2
            /\ took' = IF posted[h] = "S" THEN [took EXCEPT ![h] = @ + 1] ELSE took
            /\ last' = Waited(c, "recv", h, posted[h] = "S" /\ conv)
       ELSE /\ last' = Waited(c, "timeout", 0, FALSE)
            /\ UNCHANGED took
    /\ pc' = [pc EXCEPT ![c] = "idle"]
    /\ began' = [began EXCEPT ![c] = 0]
    /\ UNCHANGED <<cut, fh, backend, status, ctl, sample_rx, slot, posted, freed>>

\* A receive that may report a timeout although a sample is queued.
win_wait_for_frame_spurious(c, conv) ==
    /\ backend = "win" /\ status = "ok"
    /\ pc[c] = "waiting"
    /\ IF sample_rx # <<>> /\ conv
       THEN LET h == Head(sample_rx) IN
            /\ sample_rx' = Tail(sample_rx)
            /\ took' = IF posted[h] = "S" THEN [took EXCEPT ![h] = @ + 1] ELSE took
            /\ last' = Waited(c, "recv", h, posted[h] = "S")
       ELSE /\ last' = Waited(c, "timeout", 0, FALSE)
            /\ UNCHANGED <<sample_rx, took>>
    /\ pc' = [pc EXCEPT ![c] = "idle"]
    /\ began' = [began EXCEPT ![c] = 0]
    /\ UNCHANGED <<cut, fh, backend, status, ctl, slot, posted, freed>>

\* A receive that takes the queued sample yet reports a timeout.
win_wait_for_frame_lossy(c, conv) ==
    /\ backend = "win" /\ status = "ok"
    /\ pc[c] = "waiting"
    /\ IF sample_rx # <<>>
       THEN LET h == Head(sample_rx) IN
            /\ sample_rx' = Tail(sample_rx)
            /\ took' = IF posted[h] = "S" THEN [took EXCEPT ![h] = @ + 1] ELSE took
            /\ last' = IF conv THEN Waited(c, "recv", h, posted[h] = "S")
                               ELSE Waited(c, "timeout", 0, FALSE)
       ELSE /\ last' = Waited(c, "timeout", 0, FALSE)
            /\ UNCHANGED <<sample_rx, took>>
    /\ pc' = [pc EXCEPT ![c] = "idle"]
    /\ began' = [began EXCEPT ![c] = 0]
    /\ UNCHANGED <<cut, fh, backend, status, ctl, slot, posted, freed>>

\* win: sample_rx.recv_timeout(3 s).ok().flatten().and_then(..).map(Frame).
\* conv: the media type is available and sample_to_locked_buffer succeeds.
win_wait_for_frame(c, conv) ==
    /\ backend = "win" /\ status = "ok"
    /\ pc[c] = "waiting"
    /\ IF sample_rx # <<>>
       THEN LET h == Head(sample_rx) IN
            /\ sample_rx' = Tail(sample_rx)
            /\ took' = IF posted[h] = "S" THEN [took EXCEPT ![h] = @ + 1] ELSE took
            /\ last' = Waited(c, "recv", h, posted[h] = "S" /\ conv)
       ELSE \* nothing arrived within the timeout
            /\ last' = Waited(c, "timeout", 0, FALSE)
            /\ UNCHANGED <<sample_rx, took>>
    /\ pc' = [pc EXCEPT ![c] = "idle"]
    /\ began' = [began EXCEPT ![c] = 0]
    /\ UNCHANGED <<cut, fh, backend, status, ctl, slot, posted, freed>>

\* A slot wait that wakes up only for a sample, never for a None post.
mac_wait_for_frame_some_only(c) ==
    /\ backend = "mac" /\ status = "ok"
    /\ pc[c] = "waiting"
    /\ slot.counter # began[c] /\ slot.pending # 0
    /\ slot' = SlotTake(slot)
    /\ took' = [took EXCEPT ![slot.pending] = @ + 1]
    /\ last' = Waited(c, "woken", slot.pending, TRUE)
    /\ pc' = [pc EXCEPT ![c] = "idle"]
    /\ began' = [began EXCEPT ![c] = 0]
    /\ UNCHANGED <<cut, fh, backend, status, ctl, sample_rx, posted, freed>>

\* mac: slot.wait_for_sample().map(|sample| Frame { sample }); returns once a
\* post has occurred after the wait began.
mac_wait_for_frame(c) ==
    /\ backend = "mac" /\ status = "ok"
    /\ pc[c] = "waiting"
    /\ slot.counter # began[c]
    /\ slot' = SlotTake(slot)
    /\ took' = IF slot.pending # 0 THEN [took EXCEPT ![slot.pending] = @ + 1] ELSE took
    /\ last' = Waited(c, "woken", slot.pending, slot.pending # 0)
    /\ pc' = [pc EXCEPT ![c] = "idle"]
    /\ began' = [began EXCEPT ![c] = 0]
    /\ UNCHANGED <<cut, fh, backend, status, ctl, sample_rx, posted, freed>>

\* linux wait_for_frame, entry: device.read().format(), then
\* stream.write().unwrap().as_mut().unwrap() (panics when the stream is None)
\* and the blocking next() begins with the write guard held.
linux_wait_for_frame_lock(c) ==
    /\ backend = "linux" /\ status = "ok"
    /\ pc[c] = "idle"
    /\ StreamLockFree
    /\ IF stream = 0
       THEN /\ status' = "panicked"
            /\ last' = Waited(c, "panic", 0, FALSE)
            /\ UNCHANGED cons
       ELSE /\ pc' = [pc EXCEPT ![c] = "waiting"]
            /\ began' = [began EXCEPT ![c] = Posts]
            /\ last' = NoCall
            /\ UNCHANGED status
    /\ UNCHANGED <<cut, fh, backend, ctl, chans>>

\* linux: the match on format.fourcc.repr.  dec: the buffer decodes
\* (ImageView::from_buf(..).unwrap(), reader.decode().expect(..)).
LinuxConvert(fmt, dec) ==
    CASE fmt = "RGB3" -> "next"
      [] fmt = "YUYV" -> IF dec THEN "next" ELSE "decode_failed"
      [] fmt = "MJPG" -> IF dec THEN "next" ELSE "decode_failed"
      [] OTHER        -> "unsupported"

\* linux wait_for_frame, once next() returns; got: next() is Ok; fmt: the
\* device's fourcc.  An unlisted fourcc or a failed decode panics.
linux_wait_for_frame(c, got, fmt, dec) ==
    /\ backend = "linux" /\ status = "ok"
    /\ pc[c] = "waiting"
    /\ LET how == IF got THEN LinuxConvert(fmt, dec) ELSE "err" IN
        /\ last' = Waited(c, how, 0, how = "next")
        /\ status' = IF how \in {"unsupported", "decode_failed"} THEN "panicked" ELSE status
    /\ pc' = [pc EXCEPT ![c] = "idle"]
    /\ began' = [began EXCEPT ![c] = 0]
    /\ UNCHANGED <<cut, fh, backend, ctl, chans>>

\* ---------------------------------------------------------------- Next
Next ==
    \/ \E c \in Consumers : linux_start(c)
    \/ \E c \in Consumers : linux_start_insert(c)
    \/ linux_stop
    \/ win_start
    \/ win_stop
    \/ mac_start
    \/ mac_stop
    \/ \E t \in Devices, e \in SUBSET Devices, ok \in BOOLEAN : linux_set_device(t, e, ok)
    \/ \E t \in Devices, e \in SUBSET Devices, ok \in BOOLEAN : win_set_device(t, e, ok)
    \/ \E t \in Devices, e \in SUBSET Devices, ok \in BOOLEAN : mac_set_device(t, e, ok)
    \/ \E k \in Kinds : win_on_sample(k)
    \/ \E k \in Kinds : slot_post(k)
    \/ \E c \in Consumers : wait_for_frame_call(c)
    \/ \E c \in Consumers, conv \in BOOLEAN : win_wait_for_frame(c, conv)
    \/ \E c \in Consumers : mac_wait_for_frame(c)
    \/ \E c \in Consumers : linux_wait_for_frame_lock(c)
    \/ \E c \in Consumers, got \in BOOLEAN, fmt \in Formats, dec \in BOOLEAN :
          linux_wait_for_frame(c, got, fmt, dec)

Spec == Init /\ [][Next]_vars

\* =================================================================
\* The mac backend alone, with a delivery thread that keeps delivering while
\* the session runs and consumer threads that are scheduled.
\* =================================================================
MacInit == Init /\ backend = "mac"

MacNext ==
    \/ mac_start
    \/ mac_stop
    \/ \E t \in Devices, e \in SUBSET Devices, ok \in BOOLEAN : mac_set_device(t, e, ok)
    \/ \E k \in Kinds : slot_post(k)
    \/ \E c \in Consumers : wait_for_frame_call(c)
    \/ \E c \in Consumers : mac_wait_for_frame(c)

MacFairSpec ==
    /\ MacInit /\ [][MacNext]_vars
    /\ WF_vars(\E k \in Kinds : slot_post(k))
    /\ \A c \in Consumers : WF_vars(mac_wait_for_frame(c))

\* =================================================================
\* Frame, FrameData: reading the pixels of one delivered frame
\* =================================================================
core == <<cut, backend, device, session, released, running, stream, streams,
          sample_rx, slot, posted, took, freed, pc, began, last>>

\* Bytes per row of the locked CVPixelBuffer: 4 per pixel, possibly padded.
Strides(w) == {4 * w, 4 * w + 4}

\* linux: the Vec<u8> wait_for_frame stores in Frame.data for fourcc fmt:
\* buf.to_vec() for RGB3 (3 bytes per pixel), a Bgra/Rgba buffer otherwise.
LinuxDataLen(fmt, w, h) == IF fmt = "RGB3" THEN 3 * w * h ELSE 4 * w * h

\* Address of the first byte of a linux FrameData's Vec<u8>, modulo 4: a
\* Vec<u8> is allocated with alignment 1, the address is the allocator's.
Bases == 0..3

\* <[u8]>::align_to::<u32>() on len bytes at address addr (mod 4): the
\* unaligned prefix is skipped, the middle is every whole word after it and
\* the suffix is what is left.
AlignTo(addr, len) ==
    LET pre == (4 - (addr % 4)) % 4 IN
    IF pre > len
    THEN [prefix |-> len, mid |-> 0, suffix |-> 0]
    ELSE [prefix |-> pre, mid |-> (len - pre) \div 4, suffix |-> (len - pre) % 4]

\* mac: Pixels::new for a non-planar buffer: plane_sizes = stride * height.
MacDataLen(stride, h) == stride * h

\* A Frame as wait_for_frame hands it out (linux, mac), not yet read.
FrameInit ==
    /\ backend \in {"linux", "mac"}
    /\ status = "ok" /\ device = 1 /\ session = 1
    /\ released = [r \in 1..MaxSessions |-> 0]
    /\ running = (backend = "mac")
    /\ stream = (IF backend = "linux" THEN 1 ELSE 0)
    /\ streams = stream
    /\ sample_rx = <<>>
    /\ slot = [pending |-> 0, counter |-> 0]
    /\ posted = <<>>
    /\ took = [i \in 1..MaxPosts |-> 0]
    /\ freed = [i \in 1..MaxPosts |-> 0]
    /\ pc = [c \in Consumers |-> "idle"]
    /\ began = [c \in Consumers |-> 0]
    /\ last = NoCall
    /\ cut = 0
    /\ \E w \in Widths, h \in Heights :
         \/ /\ backend = "linux"
            /\ \E fmt \in {"RGB3", "YUYV", "MJPG"}, a \in Bases :
                 fh = [NoFrame EXCEPT !.state = "live", !.fmt = fmt, !.width = w,
                                      !.height = h, !.len = LinuxDataLen(fmt, w, h),
                                      !.addr = a]
         \/ /\ backend = "mac"
            /\ \E st \in Strides(w) :
                 fh = [NoFrame EXCEPT !.state = "live", !.fmt = "BGRA", !.width = w,
                                      !.height = h, !.stride = st]

\* Dropping a Pixels without the unlock of its Drop impl.
mac_pixels_drop_no_unlock ==
    /\ backend = "mac" /\ status = "ok"
    /\ fh.views > 0
    /\ fh' = [fh EXCEPT !.views = @ - 1]
    /\ UNCHANGED <<core, status>>

\* mac Frame::data -> Pixels::new.  res: "ok"; "no_image": image_buffer() is
\* None (unwrap panics); "lock_failed": CVPixelBufferLockBaseAddress returns
\* non-zero (assert_eq panics, no lock is held).
mac_frame_data(res) ==
    /\ backend = "mac" /\ status = "ok"
    /\ fh.state = "live" /\ fh.locked < MaxViews
    /\ IF res = "ok"
       THEN LET len == MacDataLen(fh.stride, fh.height)
                 u32 == AlignTo(fh.addr, len) IN
            /\ fh' = [fh EXCEPT !.views = @ + 1, !.locked = @ + 1, !.len = len,
                                !.u32 = "ok", !.prefix = u32.prefix,
                                !.words = u32.mid]
            /\ UNCHANGED status
       ELSE /\ status' = "panicked"
            /\ UNCHANGED fh
    /\ UNCHANGED core

\* mac Drop for Pixels: CVPixelBufferUnlockBaseAddress.
mac_pixels_drop ==
    /\ backend = "mac" /\ status = "ok"
    /\ fh.views > 0
    /\ fh' = [fh EXCEPT !.views = @ - 1, !.unlocked = @ + 1]
    /\ UNCHANGED <<core, status>>

\* mac: the Frame goes out of scope (FrameData borrows it, so no view is
\* left); its Retained<CMSampleBuffer> releases the sample.
mac_frame_drop ==
    /\ backend = "mac" /\ status = "ok"
    /\ fh.state = "live" /\ fh.views = 0
    /\ fh' = [fh EXCEPT !.state = "dropped", !.released = @ + 1]
    /\ UNCHANGED <<core, status>>

\* linux Frame::data: FrameData { data: self.data.clone() }.
linux_frame_data ==
    /\ backend = "linux" /\ status = "ok"
    /\ fh.state = "live" /\ fh.views < MaxViews
    /\ fh' = [fh EXCEPT !.views = @ + 1]
    /\ UNCHANGED <<core, status>>

\* linux FrameData::data_u32: unsafe { self.data.align_to().1 }.
linux_data_u32 ==
    /\ backend = "linux" /\ status = "ok"
    /\ fh.views > 0 /\ fh.u32 = "none"
    /\ LET u32 == AlignTo(fh.addr, fh.len) IN
         fh' = [fh EXCEPT !.u32 = "ok", !.prefix = u32.prefix, !.words = u32.mid]
    /\ UNCHANGED <<core, status>>

\* linux: a FrameData goes out of scope.
linux_frame_data_drop ==
    /\ backend = "linux" /\ status = "ok"
    /\ fh.views > 0
    /\ fh' = [fh EXCEPT !.views = @ - 1]
    /\ UNCHANGED <<core, status>>

\* linux: the Frame goes out of scope and frees its Vec.
linux_frame_drop ==
    /\ backend = "linux" /\ status = "ok"
    /\ fh.state = "live" /\ fh.views = 0
    /\ fh' = [fh EXCEPT !.state = "dropped", !.released = @ + 1]
    /\ UNCHANGED <<core, status>>

FrameNext ==
    \/ \E res \in {"ok", "no_image", "lock_failed"} : mac_frame_data(res)
    \/ mac_pixels_drop
    \/ mac_frame_drop
    \/ linux_frame_data
    \/ linux_data_u32
    \/ linux_frame_data_drop
    \/ linux_frame_drop

FrameSpec == FrameInit /\ [][FrameNext]_vars

\* =================================================================
\* Properties
\* =================================================================
\* The value of post i as a wait can return it: the sample, or 0 for None.
ValueOf(i) == IF posted[i] = "S" THEN i ELSE 0

\* The value the wait that has just returned took from the channel/slot.
Returned == IF last.val # 0 /\ posted[last.val] = "S" THEN last.val ELSE 0

\* Sample i is still held by the channel / the slot.
Held(i) == i \in Range(sample_rx) \/ slot.pending = i

\* A wait_for_frame that went through the channel / the slot has just returned.
WaitReturned == last.op = "wait" /\ last.how \in {"recv", "timeout", "woken"}

WasRunning == last.pre[4]

\* C1: latest-wins.  The channel never holds more than one pending sample, a
\* wait returns only the value of the latest post, and every sample that a
\* later post superseded has been released (or handed out) exactly once.
C1_LatestWins ==
    /\ Len(sample_rx) <= 1
    /\ (WaitReturned /\ last.val # 0) => last.val = last.latest
    /\ \A i \in 1..MaxPosts :
        (i < Posts /\ posted[i] = "S") => took[i] + freed[i] = 1

\* C2: with two consumers in wait_for_frame, no sample is handed to more than
\* one caller: every posted sample is delivered at most once.
C2_NoDuplicateDelivery == \A i \in 1..MaxPosts : took[i] <= 1

\* C2 witness: a wait has just returned a sample while the other consumer is
\* still inside wait_for_frame.
C2_Witness ==
    /\ last.op = "wait" /\ last.val # 0 /\ posted[last.val] = "S"
    /\ \E c \in Consumers : c # last.c /\ pc[c] = "waiting" /\ began[c] < last.val

\* C3: exactly-once ownership.  A posted sample is either still held by the
\* channel/slot and then neither delivered nor released, or it has left it
\* in exactly one way: handed to one wait() caller, or released once (by an
\* overwriting post or by the teardown of the channel).
C3_ExactlyOnce ==
    \A i \in 1..MaxPosts :
        (i <= Posts /\ posted[i] = "S") =>
            took[i] + freed[i] = (IF Held(i) THEN 0 ELSE 1)

\* C3 witness: a device switch has just torn down a channel that still held a
\* sample, while an earlier sample had been delivered.
C3_Witness ==
    /\ last.op = "set_device" /\ last.how = "switched"
    /\ \E i, j \in 1..MaxPosts : i # j /\ freed[i] = 1 /\ took[j] = 1

\* C4 as stated: a wait that began before any post returns only after the
\* first post, with exactly that post's value.
C4_WaitReturnsFirstPost ==
    (WaitReturned /\ last.began = 0) =>
        (last.latest >= 1 /\ Returned = ValueOf(1))

\* C4 amended: a wait that began before any post either returns after the
\* first post with a posted value (the first post's value when that is the
\* only post so far and no other consumer has taken it), or, on the win
\* backend, returns None by timeout with nothing queued and nothing consumed.
C4_WaitFirstPostOrTimeout ==
    (WaitReturned /\ last.began = 0) =>
        /\ last.how = "timeout" => (backend = "win" /\ sample_rx = <<>> /\ last.val = 0)
        /\ last.how # "timeout" => last.latest >= 1
        /\ (last.how = "recv" /\ last.latest = 1) => Returned = ValueOf(1)
        /\ (last.how = "woken" /\ last.latest = 1) =>
               (Returned = ValueOf(1) \/ (Returned = 0 /\ took[1] = 1))

\* C4 witness: a wait entered before any post has returned the first post's
\* sample.
C4_Witness ==
    /\ WaitReturned /\ last.began = 0 /\ last.latest = 1
    /\ posted[1] = "S" /\ Returned = 1

\* C5: a wait that begins after post k completed returns the value of post k
\* or of a later post, never of an earlier one.
C5_PostOrdering ==
    (WaitReturned /\ last.val # 0) => last.val >= last.began

\* C6: set_device to a different id that is not enumerated returns false and
\* leaves the controller idle.
C6_AbsentTargetStops ==
    (last.op = "set_device" /\ last.how = "absent") => (~last.res /\ ~Running)

\* C7: a successful switch to a different device keeps the running state.
C7_SwitchPreservesRunning ==
    (last.op = "set_device" /\ last.how = "switched") =>
        (last.res /\ Running = WasRunning)

\* C8: the controller owns exactly one native session: the current one is
\* live and every earlier one was released exactly once; a successful switch
\* while running releases the old one once and ends running on the new one.
C8_OneSession ==
    session >= 1 =>
        /\ \A r \in 1..MaxSessions :
              released[r] = (IF r < session THEN 1 ELSE 0)
        /\ (last.op = "set_device" /\ last.how = "switched" /\ WasRunning) =>
              /\ last.res /\ Running
              /\ session = last.pre[2] + 1
              /\ device = last.target

\* C8 witness: a switch to another device has just succeeded while running.
C8_Witness ==
    /\ last.op = "set_device" /\ last.how = "switched" /\ WasRunning
    /\ released[last.pre[2]] = 1

\* C9: set_device with the current device's id returns true and changes
\* nothing (device, session, releases, running state, stream, pending frames).
C9_SameDeviceNoop ==
    (last.op = "set_device" /\ last.target = last.pre[1]) =>
        (last.res /\ status = "ok" /\ Snapshot = last.pre)

\* C9 witness: set_device with the current id has just returned on a running
\* controller.
C9_Witness ==
    last.op = "set_device" /\ last.target = last.pre[1] /\ WasRunning

C11_NoDeviceReported ==
    /\ session = 0 => (status = "none" /\ device = 0)
    /\ session >= 1 => device \in Devices


C13_LockedViews ==
    /\ fh.locked = fh.unlocked + (IF backend = "mac" THEN fh.views ELSE 0)
    /\ fh.state = "live" => fh.released = 0
    /\ fh.state = "dropped" =>
          (fh.views = 0 /\ fh.locked = fh.unlocked /\ fh.released = 1)

\* C13 witness: views of a mac frame were taken and dropped and the frame
\* itself has been dropped.
C13_Witness ==
    backend = "mac" /\ fh.state = "dropped" /\ fh.locked = MaxViews

\* C14: a per-frame failure (unsupported format tag, a buffer that cannot be
\* locked or decoded, a failed dequeue) ends that one wait_for_frame call with
\* no frame: the call does not panic and delivers nothing.
C14_FrameFailureIsNoFrame ==
    (last.op = "wait" /\
       (\/ last.how \in {"unsupported", "decode_failed", "err"}
        \/ (last.how = "recv" /\ posted[last.val] = "S" /\ ~last.frame)))
      => (status = "ok" /\ ~last.frame)

\* C16: a wait that ended by timeout returned None without an error and left
\* the channel as it was: nothing was queued, nothing was consumed, released
\* or delivered by it.
C16_TimeoutConsumesNothing ==
    (last.op = "wait" /\ last.how = "timeout") =>
        /\ backend = "win" /\ status = "ok"
        /\ ~last.frame /\ last.val = 0
        /\ <<sample_rx, slot, took, freed>> = last.pre
        /\ sample_rx = <<>>

\* C16 witness: a wait has timed out after an earlier sample was posted and
\* delivered.
C16_Witness ==
    /\ last.op = "wait" /\ last.how = "timeout"
    /\ Posts >= 1 /\ posted[1] = "S" /\ took[1] = 1

\* C17: the wait_for_frame that follows a set_device whose target id was not
\* found neither crashes nor delivers a frame: it returns None.
C17_WaitAfterFailedSwitch ==
    (last.op = "wait" /\ last.prev = "absent") => (status = "ok" /\ ~last.frame)

\* C18: a set_device whose target is enumerated but cannot be opened returns
\* false without panicking and leaves the camera Idle or exactly as it was.
C18_OpenFailureReported ==
    (last.op = "set_device" /\ last.how \in {"panic", "open_failed"}) =>
        /\ status = "ok" /\ ~last.res
        /\ (Snapshot = last.pre \/ ~Running)

\* C15: whenever the pixels of a delivered frame are viewed, the byte view
\* holds exactly width*height 32-bit pixels: 4*width*height bytes, for every
\* source format, width, height and row stride.
C15_CanonicalLength ==
    fh.views > 0 => fh.len = 4 * fh.width * fh.height

\* C19: the producer never blocks on the consumer (a post is possible in
\* every state in which the camera runs, whatever the consumers do and
\* whatever is pending) and at most one undelivered sample is held.
C19_ProducerNeverBlocks ==
    /\ (backend = "win" /\ status = "ok" /\ running /\ Posts < MaxPosts) =>
           ENABLED (\E k \in Kinds : win_on_sample(k))
    /\ (backend = "mac" /\ status = "ok" /\ running /\ Posts < MaxPosts) =>
           ENABLED (\E k \in Kinds : slot_post(k))
    /\ Cardinality({i \in 1..Posts : posted[i] = "S" /\ Held(i)}) <= 1

\* C20: while a thread is blocked inside wait_for_frame, stop() and start()
\* called by another thread can complete at once: neither has to wait for
\* the blocked wait to end.
C20_StartStopNotBehindWaiter ==
    (status = "ok" /\ \E c \in Consumers : pc[c] = "waiting") =>
        /\ backend = "linux" => (ENABLED linux_stop /\ ENABLED (\E t \in Consumers : linux_start(t)))
        /\ backend = "win" => (ENABLED win_stop /\ ENABLED win_start)
        /\ backend = "mac" => (ENABLED mac_stop /\ ENABLED mac_start)

\* C21: a wait_for_frame made while the camera is Idle (never started, or
\* stopped) returns only because something was posted: it neither panics nor
\* returns early with nothing received.
C21_IdleWaitBlocks ==
    (last.op = "wait" /\ ~Running) =>
        (status = "ok" /\ last.how \in {"recv", "woken"})

C23_WordViewCoversBytes ==
    fh.u32 = "ok" => (fh.prefix = 0 /\ 4 * fh.words = fh.len)

\* C24: no stale frame crosses a device switch: a frame returned by
\* wait_for_frame was posted after the latest switch to another device, and
\* every sample posted before that switch has been delivered or released
\* exactly once and is no longer held by the channel or the slot.
C24_NoStaleFrame ==
    /\ (WaitReturned /\ last.frame) => last.val > cut
    /\ \A i \in 1..MaxPosts :
         (i <= cut /\ i <= Posts /\ posted[i] = "S") =>
             (~Held(i) /\ took[i] + freed[i] = 1)

\* C25: concurrent start() calls on an idle camera install at most one
\* stream: when a start call inserts the stream it created, no stream is
\* installed yet, so none is overwritten and dropped.
C25_StartInstallsOnce ==
    [][(\E c \in Consumers : pc[c] = "starting" /\ pc'[c] = "idle") => stream = 0]_vars

====
